---------------------------- MODULE Spec2Model ----------------------------
(***************************************************************************)
(* Split search of the gradient boosted tree trainer (src/src/splitter.rs):*)
(* MissingImputerSplitter::evaluate_split, Splitter::best_feature_split    *)
(* and Splitter::best_split, together with the scalar helpers of           *)
(* crate::utils they call.                                                 *)
(*                                                                         *)
(* Numbers.  The program computes in f32, and so does the model: a value   *)
(* is the record [sign, exp, man] of the three fields of an IEEE 754       *)
(* binary32 (1, 8 and 23 bits).  exp = 255 is an infinity (man = 0) or a   *)
(* NaN, exp = 0 a zero or a subnormal, and any other value stands for      *)
(* (-1)^sign * (2^23 + man) * 2^(exp - 150).  Addition, subtraction,       *)
(* multiplication and division round to nearest, ties to even, as the      *)
(* hardware does, with signed zeros, overflow to infinity and gradual      *)
(* underflow.  There is one NaN: its sign and payload, which the program   *)
(* never reads, are not kept.                                              *)
(***************************************************************************)
EXTENDS Integers, Sequences, FiniteSets

\* ------------------------------------------------------------------ f32
\* An operator binds its operands ("a \in {x}") before it uses them, so that
\* each operand is evaluated once however deep the expression is.

Pick(S) == CHOOSE x \in S : TRUE

Abs(x) == IF x < 0 THEN -x ELSE x

\* The number of bits of m, for 0 <= m < 2^30.
BitLen(m) ==
    IF m < 2^23 THEN CHOOSE k \in 0..23 : m < 2^k /\ (k = 0 \/ m >= 2^(k - 1))
    ELSE IF m < 2^24 THEN 24
    ELSE IF m < 2^27 THEN (IF m < 2^25 THEN 25 ELSE IF m < 2^26 THEN 26 ELSE 27)
    ELSE IF m < 2^28 THEN 28
    ELSE IF m < 2^29 THEN 29
    ELSE 30

F32(sign, exp, man) == [sign |-> sign, exp |-> exp, man |-> man]

SignedZero(sign) == F32(sign, 0, 0)

SignedInfinity(sign) == F32(sign, 255, 0)

Zero == SignedZero(0)

INFINITY == SignedInfinity(0)

NEG_INFINITY == SignedInfinity(1)

NAN == F32(0, 255, 2^22)

is_nan(x) == \E a \in {x} : a.exp = 255 /\ a.man # 0

IsInfinite(a) == a.exp = 255 /\ a.man = 0

IsZero(a) == a.exp = 0 /\ a.man = 0

\* A finite value is (-1)^sign * Significand * 2^Exponent.
Significand(a) == IF a.exp = 0 THEN a.man ELSE 2^23 + a.man

Exponent(a) == IF a.exp = 0 THEN -149 ELSE a.exp - 150

\* The value of significand m < 2^24 at exponent e >= -149, where m < 2^23
\* only at e = -149; a value beyond the largest finite one is an infinity.
Pack(sign, m, e) ==
    IF m < 2^23 THEN F32(sign, 0, m)
    ELSE IF e + 150 >= 255 THEN SignedInfinity(sign)
    ELSE F32(sign, e + 150, m - 2^23)

\* m / 2^sh rounded to the nearest integer, ties to the even one.
RoundShift(m, sh) ==
    IF sh <= 0 THEN m * 2^(-sh)
    ELSE IF sh > 30 THEN 0
    ELSE Pick({ IF r > h \/ (r = h /\ q % 2 = 1) THEN q + 1 ELSE q :
                q \in {m \div 2^sh}, r \in {m % 2^sh}, h \in {2^(sh - 1)} })

\* m / 2^sh rounded down, its last bit set when a set bit was shifted out.
JamShift(m, sh) ==
    IF sh <= 0 THEN m
    ELSE IF sh > 30 THEN (IF m = 0 THEN 0 ELSE 1)
    ELSE Pick({ IF r # 0 /\ q % 2 = 0 THEN q + 1 ELSE q :
                q \in {m \div 2^sh}, r \in {m % 2^sh} })

\* The f32 nearest to (-1)^sign * m * 2^e, for 0 <= m < 2^30.  An inexact m
\* has its last bit set and at least 26 bits.
Round(sign, m, e) ==
    IF m = 0 THEN SignedZero(sign)
    ELSE Pick(UNION { { IF r = 2^24 THEN Pack(sign, 2^23, t + 1) ELSE Pack(sign, r, t) :
                        r \in {RoundShift(m, t - e)} } :
                      t \in {Pick({ IF e + l - 24 < -149 THEN -149 ELSE e + l - 24 :
                                     l \in {BitLen(m)} })} })

\* An integer literal.
Int2F(k) == Round(IF k < 0 THEN 1 ELSE 0, Abs(k), 0)

One == Int2F(1)

Two == Int2F(2)

Half == F32(0, 126, 0)

Neg(x) == Pick({ IF is_nan(a) THEN NAN ELSE F32(1 - a.sign, a.exp, a.man) : a \in {x} })

\* The sum of two finite values, hi the one of the larger exponent: three
\* guard bits below hi's significand, lo shifted to hi's exponent.
AddAligned(hi, lo) ==
    Pick({ IF hi.sign = lo.sign THEN Round(hi.sign, h + l, Exponent(hi) - 3)
           ELSE IF h = l THEN Zero
           ELSE IF h > l THEN Round(hi.sign, h - l, Exponent(hi) - 3)
           ELSE Round(lo.sign, l - h, Exponent(hi) - 3) :
           h \in {Significand(hi) * 8},
           l \in {JamShift(Significand(lo) * 8, Exponent(hi) - Exponent(lo))} })

Add(x, y) ==
    Pick({ IF is_nan(a) \/ is_nan(b) THEN NAN
           ELSE IF IsInfinite(a) /\ IsInfinite(b) THEN (IF a.sign = b.sign THEN a ELSE NAN)
           ELSE IF IsInfinite(a) THEN a
           ELSE IF IsInfinite(b) THEN b
           ELSE IF IsZero(a) /\ IsZero(b) THEN (IF a.sign = b.sign THEN a ELSE Zero)
           ELSE IF IsZero(b) THEN a
           ELSE IF IsZero(a) THEN b
           ELSE IF Exponent(a) >= Exponent(b) THEN AddAligned(a, b)
           ELSE AddAligned(b, a) :
           a \in {x}, b \in {y} })

Sub(x, y) == Add(x, Neg(y))

IsNormal(a) == a.exp # 0 /\ a.exp # 255

\* a * 2^k is exact while the exponent stays that of a normal value.
Scales(a, k) == IsNormal(a) /\ a.exp + k >= 1 /\ a.exp + k <= 254

IsPowerOfTwo(a) == IsNormal(a) /\ a.man = 0

\* (h * 2^24 + l) * 2^e for h < 2^25 and l < 2^24, as at most 30 bits, the
\* last one set when a set bit of l is left out.
RoundWide(sign, h, l, e) ==
    IF h = 0 THEN Round(sign, l, e)
    ELSE Pick({ Round(sign, h * 2^k + JamShift(l, 24 - k), e + 24 - k) :
                k \in {IF 30 - BitLen(h) > 24 THEN 24 ELSE 30 - BitLen(h)} })

\* The product of two significands below 2^24, from their 12-bit halves.
MulSignificands(sign, p, q, e) ==
    Pick(UNION { { RoundWide(sign, hi + mid \div 4096 + low \div 2^24, low % 2^24, e) :
                   low \in {(mid % 4096) * 4096 + lo} } :
                 hi \in {(p \div 4096) * (q \div 4096)},
                 mid \in {(p \div 4096) * (q % 4096) + (p % 4096) * (q \div 4096)},
                 lo \in {(p % 4096) * (q % 4096)} })

Mul(x, y) ==
    Pick(UNION { { IF is_nan(a) \/ is_nan(b) THEN NAN
                   ELSE IF IsInfinite(a) \/ IsInfinite(b)
                        THEN (IF IsZero(a) \/ IsZero(b) THEN NAN ELSE SignedInfinity(s))
                   ELSE IF IsZero(a) \/ IsZero(b) THEN SignedZero(s)
                   ELSE IF IsPowerOfTwo(b) /\ Scales(a, b.exp - 127)
                        THEN F32(s, a.exp + b.exp - 127, a.man)
                   ELSE IF IsPowerOfTwo(a) /\ Scales(b, a.exp - 127)
                        THEN F32(s, b.exp + a.exp - 127, b.man)
                   ELSE MulSignificands(s, Significand(a), Significand(b),
                                        Exponent(a) + Exponent(b)) :
                   s \in {(a.sign + b.sign) % 2} } :
                 a \in {x}, b \in {y} })

\* One round of the long division by d: seven more bits of the quotient.
DivStep(qr, d) ==
    Pick({ [q |-> c.q * 128 + (c.r * 128) \div d, r |-> (c.r * 128) % d] : c \in {qr} })

\* p / q for significands of 24 bits each: 28 bits of the quotient after the
\* point, the last one set when the division leaves a remainder.
DivSignificands(sign, p, q, e) ==
    Pick({ Round(sign, IF c.r # 0 /\ c.q % 2 = 0 THEN c.q + 1 ELSE c.q, e - 28) :
           c \in {DivStep(DivStep(DivStep(DivStep([q |-> p \div q, r |-> p % q], q), q), q), q)} })

\* The quotient of two finite values other than 0, their significands
\* shifted up to 24 bits (a subnormal has fewer).
DivFinite(sign, a, b) ==
    Pick({ DivSignificands(sign, Significand(a) * 2^(24 - la), Significand(b) * 2^(24 - lb),
                           (Exponent(a) - (24 - la)) - (Exponent(b) - (24 - lb))) :
           la \in {BitLen(Significand(a))}, lb \in {BitLen(Significand(b))} })

Div(x, y) ==
    Pick(UNION { { IF is_nan(a) \/ is_nan(b) THEN NAN
                   ELSE IF IsInfinite(a) THEN (IF IsInfinite(b) THEN NAN ELSE SignedInfinity(s))
                   ELSE IF IsInfinite(b) THEN SignedZero(s)
                   ELSE IF IsZero(b) THEN (IF IsZero(a) THEN NAN ELSE SignedInfinity(s))
                   ELSE IF IsZero(a) THEN SignedZero(s)
                   ELSE IF IsPowerOfTwo(b) /\ Scales(a, 127 - b.exp)
                        THEN F32(s, a.exp - b.exp + 127, a.man)
                   ELSE DivFinite(s, a, b) :
                   s \in {(a.sign + b.sign) % 2} } :
                 a \in {x}, b \in {y} })

\* The place of a value other than NaN in the order of f32: +0.0 and -0.0
\* share one.
Ord(a) == IF a.sign = 1 THEN -(a.exp * 2^23 + a.man) ELSE a.exp * 2^23 + a.man

Lt(x, y) == \E a \in {x}, b \in {y} : ~is_nan(a) /\ ~is_nan(b) /\ Ord(a) < Ord(b)

Eq(x, y) == \E a \in {x}, b \in {y} : ~is_nan(a) /\ ~is_nan(b) /\ Ord(a) = Ord(b)

Le(x, y) == \E a \in {x}, b \in {y} : ~is_nan(a) /\ ~is_nan(b) /\ Ord(a) <= Ord(b)

Gt(x, y) == Lt(y, x)

Ge(x, y) == Le(y, x)

Ne(x, y) == ~Eq(x, y)

\* ---------------------------------------------------------- crate::utils
\* utils.rs is not among the source files; the helpers follow the
\* specification's section 4.1.  The Constraint variants are named as the
\* source names them: Positive is non-decreasing, Negative non-increasing
\* (splitter.rs 341-342 hands the lower half interval to the left child
\* under Positive).  The helpers take the Option<&Constraint> that
\* get_constraint returns: None, a feature without an entry in the
\* constraint map, is treated as Unconstrained (line 337).

None == [some |-> FALSE]

Some(x) == [some |-> TRUE, v |-> x]

Unconstrained == "Unconstrained"

Positive == "Positive"

Negative == "Negative"

Constraints == {Unconstrained, Positive, Negative}

\* -G / (H + l2)
weight(l2, gradient_sum, hessian_sum) ==
    Div(Neg(gradient_sum), Add(hessian_sum, l2))

constrained_weight(l2, gradient_sum, hessian_sum, lower_bound, upper_bound, constraint) ==
    Pick({ IF constraint = None \/ constraint = Some(Unconstrained) THEN w
           ELSE IF Gt(w, upper_bound) THEN upper_bound
           ELSE IF Lt(w, lower_bound) THEN lower_bound
           ELSE w :
           w \in {weight(l2, gradient_sum, hessian_sum)} })

\* -(2 G w + (H + l2) w^2).  The specification's formula halves this; the
\* unhalved value is the one the repository's tests pin down
\* (splitter.rs 419-423: G = 1.5, H = 0.75, l2 = 0 gives gain 3.0).
gain_given_weight(l2, gradient_sum, hessian_sum, w0) ==
    Pick({ Neg(Add(Mul(Mul(Two, gradient_sum), w),
                   Mul(Add(hessian_sum, l2), Mul(w, w)))) :
           w \in {w0} })

\* utils::gain, the gain of a node at its Newton weight (tests, 497).
gain(l2, gradient_sum, hessian_sum) ==
    gain_given_weight(l2, gradient_sum, hessian_sum,
                      weight(l2, gradient_sum, hessian_sum))

cull_gain(gain0, left_weight, right_weight, constraint) ==
    Pick({ IF is_nan(g) THEN Zero
           ELSE IF constraint = Some(Positive)
                THEN (IF Le(left_weight, right_weight) THEN g ELSE Zero)
           ELSE IF constraint = Some(Negative)
                THEN (IF Ge(left_weight, right_weight) THEN g ELSE Zero)
           ELSE g :
           g \in {gain0} })

\* ------------------------------------- MissingImputerSplitter::evaluate_split

Left == "Left"

Right == "Right"

NodeInfo(grad, gain_, cover, w, bounds) ==
    [grad |-> grad, gain |-> gain_, cover |-> cover, weight |-> w, bounds |-> bounds]

\* Lines 82-83: a side with no gradient and no hessian.
NoInfo(gradient, hessian) == Eq(gradient, Zero) /\ Eq(hessian, Zero)

\* Lines 98-117: the weight and gain of each side without the missing mass.
\* a holds the arguments of evaluate_split.
Sides(self, a) ==
    Pick({ [left_weight |-> lw,
            right_weight |-> rw,
            left_gain |-> gain_given_weight(self.l2, a.left_gradient, a.left_hessian, lw),
            right_gain |-> gain_given_weight(self.l2, a.right_gradient, a.right_hessian, rw)] :
           lw \in {constrained_weight(self.l2, a.left_gradient, a.left_hessian,
                                      a.lower_bound, a.upper_bound, a.constraint)},
           rw \in {constrained_weight(self.l2, a.right_gradient, a.right_hessian,
                                      a.lower_bound, a.upper_bound, a.constraint)} })

\* Lines 135-178: the weight and gain of each side if it took the missing
\* mass.  cull_gain is applied to the missing-left gain twice (152, 173)
\* and never to the missing-right gain; the missing-right weight comes from
\* weight, not constrained_weight (160).
MissingOptions(self, a, right_weight) ==
    Pick({ [missing_left_weight |-> mlw,
            missing_left_gain |->
                cull_gain(cull_gain(gain_given_weight(self.l2,
                                        Add(a.left_gradient, a.missing_gradient),
                                        Add(a.left_hessian, a.missing_hessian), mlw),
                                    mlw, right_weight, a.constraint),
                          mlw, right_weight, a.constraint),
            missing_right_weight |-> mrw,
            missing_right_gain |->
                gain_given_weight(self.l2, Add(a.right_gradient, a.missing_gradient),
                                  Add(a.right_hessian, a.missing_hessian), mrw)] :
           mlw \in {constrained_weight(self.l2, Add(a.left_gradient, a.missing_gradient),
                                       Add(a.left_hessian, a.missing_hessian),
                                       a.lower_bound, a.upper_bound, a.constraint)},
           mrw \in {weight(self.l2, Add(a.right_gradient, a.missing_gradient),
                           Add(a.right_hessian, a.missing_hessian))} })

\* Line 131: the missing bin holds something.
HasMissing(a) == Ne(a.missing_gradient, Zero) \/ Ne(a.missing_hessian, Zero)

\* A variant of line 180 that also sends the missing mass left on a tie.
MissingGoesLeftOnTie(missing_right_gain, right_gain, missing_left_gain, left_gain) ==
    Le(Sub(missing_right_gain, right_gain), Sub(missing_left_gain, left_gain))

\* Line 180: the missing mass goes left.
MissingGoesLeft(missing_right_gain, right_gain, missing_left_gain, left_gain) ==
    Lt(Sub(missing_right_gain, right_gain), Sub(missing_left_gain, left_gain))

\* Lines 90-195: the locals after the missing mass was routed.
Routed(self, a, s, m) ==
    IF HasMissing(a)
    THEN IF MissingGoesLeft(m.missing_right_gain, s.right_gain,
                            m.missing_left_gain, s.left_gain)
         THEN [left_gradient |-> Add(a.left_gradient, a.missing_gradient),
               left_hessian |-> Add(a.left_hessian, a.missing_hessian),
               left_gain |-> m.missing_left_gain,
               left_weight |-> m.missing_left_weight,
               right_gradient |-> a.right_gradient,
               right_hessian |-> a.right_hessian,
               right_gain |-> s.right_gain,
               right_weight |-> s.right_weight,
               missing_info |-> Left]
         ELSE [left_gradient |-> a.left_gradient,
               left_hessian |-> a.left_hessian,
               left_gain |-> s.left_gain,
               left_weight |-> s.left_weight,
               right_gradient |-> Add(a.right_gradient, a.missing_gradient),
               right_hessian |-> Add(a.right_hessian, a.missing_hessian),
               right_gain |-> m.missing_right_gain,
               right_weight |-> m.missing_right_weight,
               missing_info |-> Right]
    ELSE [left_gradient |-> a.left_gradient,
          left_hessian |-> a.left_hessian,
          left_gain |-> s.left_gain,
          left_weight |-> s.left_weight,
          right_gradient |-> a.right_gradient,
          right_hessian |-> a.right_hessian,
          right_gain |-> s.right_gain,
          right_weight |-> s.right_weight,
          missing_info |-> Right]

\* A variant of lines 82-87 that turns a split down only when both sides are
\* without information.
MissingOnlyRejectedBothSides(self, a) ==
    /\ NoInfo(a.left_gradient, a.left_hessian) /\ NoInfo(a.right_gradient, a.right_hessian)
    /\ ~self.allow_missing_splits

\* Lines 82-87: a side without information, and missing-only splits are off.
MissingOnlyRejected(self, a) ==
    /\ NoInfo(a.left_gradient, a.left_hessian) \/ NoInfo(a.right_gradient, a.right_hessian)
    /\ ~self.allow_missing_splits

\* Lines 119-126: min_leaf_weight before the routing.
EarlyMinLeafWeightRejected(self, a) ==
    /\ ~self.allow_missing_splits
    /\ Lt(a.right_hessian, self.min_leaf_weight) \/ Lt(a.left_hessian, self.min_leaf_weight)

\* A variant of lines 197-200 that checks the right side only.
BelowMinLeafWeightRightOnly(self, left_hessian, right_hessian) ==
    Lt(right_hessian, self.min_leaf_weight)

\* Lines 197-200: min_leaf_weight after the routing.
BelowMinLeafWeight(self, left_hessian, right_hessian) ==
    Lt(right_hessian, self.min_leaf_weight) \/ Lt(left_hessian, self.min_leaf_weight)

\* Lines 206, 213.
Shrunk(self, w) == Mul(w, self.learning_rate)

\* Lines 197-217.
Returned(self, r) ==
    IF BelowMinLeafWeight(self, r.left_hessian, r.right_hessian)
    THEN None
    ELSE Some([left |-> NodeInfo(r.left_gradient, r.left_gain, r.left_hessian,
                                 Shrunk(self, r.left_weight),
                                 <<NEG_INFINITY, INFINITY>>),
               right |-> NodeInfo(r.right_gradient, r.right_gain, r.right_hessian,
                                  Shrunk(self, r.right_weight),
                                  <<NEG_INFINITY, INFINITY>>),
               missing |-> r.missing_info])

\* Lines 67-218, on the record a of its arguments.
EvaluateSplit(self, a) ==
    IF MissingOnlyRejected(self, a) THEN None
    ELSE IF EarlyMinLeafWeightRejected(self, a) THEN None
    ELSE Pick({ Returned(self, r) :
                r \in UNION { UNION { {Routed(self, a, s, m)} :
                                      m \in {MissingOptions(self, a, s.right_weight)} } :
                              s \in {Sides(self, a)} } })

evaluate_split(self, left_gradient, left_hessian, right_gradient, right_hessian, missing_gradient, missing_hessian, lower_bound, upper_bound, constraint) ==
    Pick({ EvaluateSplit(self, a) :
           a \in {[left_gradient |-> left_gradient,
                   left_hessian |-> left_hessian,
                   right_gradient |-> right_gradient,
                   right_hessian |-> right_hessian,
                   missing_gradient |-> missing_gradient,
                   missing_hessian |-> missing_hessian,
                   lower_bound |-> lower_bound,
                   upper_bound |-> upper_bound,
                   constraint |-> constraint]} })

\* Lines 220-222: the map's entry of the feature, None without one.
get_constraint(self, f) ==
    IF f \in DOMAIN self.constraints_map THEN Some(self.constraints_map[f]) ELSE None

\* ------------------------------------------------------------------ state

VARIABLES
    splitter,         \* the MissingImputerSplitter (lines 36-43), never written
    node,             \* the SplittableNode with its histograms, never written
    pc,               \* where the call of best_split stands: in its own loop,
                      \* in best_feature_split's, at the match of line 298, or
                      \* returned
    feature,          \* best_split's loop variable i (line 247)
    i,                \* best_feature_split's loop index (line 292)
    cuml_grad,        \* line 285
    cuml_hess,        \* line 286
    split_info,       \* line 277
    max_gain,         \* line 278
    best_split_info,  \* line 244
    best_gain,        \* line 245
    evaluated         \* the last call of evaluate_split and what it returned

vars == <<splitter, node, pc, feature, i, cuml_grad, cuml_hess, split_info,
          max_gain, best_split_info, best_gain, evaluated>>

\* ------------------------------------------------------------------ inputs

\* Non-missing bins of a histogram column.
NumBins == 2

\* Feature columns of the histogram matrix under SpecMulti.
NumFeatures == 2

\* The (grad_sum, hess_sum) of a bin: no rows, or rows of either gradient
\* sign.
BinSums ==
    { [grad_sum |-> Zero, hess_sum |-> Zero],
      [grad_sum |-> One, hess_sum |-> One],
      [grad_sum |-> Int2F(-1), hess_sum |-> One] }

\* Bins whose sums f32 cannot add exactly: 2^24 + 1 is not an f32.
WideBinSums ==
    { [grad_sum |-> Zero, hess_sum |-> Zero],
      [grad_sum |-> One, hess_sum |-> One],
      [grad_sum |-> Int2F(16777216), hess_sum |-> One] }

\* A column: bin 0 (index 1 here) is the missing bin, the cut values rise.
Columns(sums) ==
    { [k \in 1..(NumBins + 1) |->
          [grad_sum |-> c[k].grad_sum, hess_sum |-> c[k].hess_sum,
           cut_value |-> Int2F(k - 1)]] :
      c \in [1..(NumBins + 1) -> sums] }

\* iter().sum::<f32>() (408-409): a left fold of f32 additions whose start is
\* the additive identity -0.0, so the sum of no terms, or of -0.0 terms only,
\* is -0.0.  The node's totals are arguments of SplittableNode::new; the nodes
\* below take the sums of the first feature's bins in bin order.
RECURSIVE SumGrad(_, _)
SumGrad(col, k) ==
    IF k = 0 THEN SignedZero(1) ELSE Add(SumGrad(col, k - 1), col[k].grad_sum)

RECURSIVE SumHess(_, _)
SumHess(col, k) ==
    IF k = 0 THEN SignedZero(1) ELSE Add(SumHess(col, k - 1), col[k].hess_sum)

\* The node's permissible weight interval: the root's, and intervals a
\* constrained ancestor split hands down.
BoundIntervals ==
    { <<NEG_INFINITY, INFINITY>>, <<Int2F(-1), One>>, <<One, Two>> }

\* A ConstraintMap with an entry for the features of one of the sets keys.
ConstraintMaps(keys, constraints) == UNION { [k -> constraints] : k \in keys }

Splitters(l2s, gammas, mins, rates, maps) ==
    [l2 : l2s, gamma : gammas, min_leaf_weight : mins, learning_rate : rates,
     allow_missing_splits : BOOLEAN,
     constraints_map : maps]

\* SplittableNode::new takes gain_value as an argument of its own (399-415):
\* the Newton gain of the node's sums, or a smaller value when the node's
\* weight was clamped.
Nodes(self, hists, intervals, newtons) ==
    { [histograms |-> h,
       grad_sum |-> SumGrad(h[1], Len(h[1])),
       hess_sum |-> SumHess(h[1], Len(h[1])),
       gain_value |-> IF newton
                      THEN gain(self.l2, SumGrad(h[1], Len(h[1])), SumHess(h[1], Len(h[1])))
                      ELSE Zero,
       lower_bound |-> b[1],
       upper_bound |-> b[2]] :
      h \in hists, b \in intervals, newton \in newtons }

ColumnTotals(col) == <<SumGrad(col, Len(col)), SumHess(col, Len(col))>>

\* The histogram matrices of nfeatures columns out of cols: every column of
\* a node's histogram sums to the node's totals.
Histograms(nfeatures, cols) ==
    UNION { [1..nfeatures -> { c \in cols : ColumnTotals(c) = t }] :
            t \in { ColumnTotals(c) : c \in cols } }

InitLocals ==
    /\ pc = "best_split"
    /\ feature = 0
    /\ i = 0
    /\ cuml_grad = Zero
    /\ cuml_hess = Zero
    /\ split_info = None
    /\ max_gain = None
    /\ best_split_info = None
    /\ best_gain = Zero
    /\ evaluated = None

\* One feature column, the feature with and without an entry in the
\* ConstraintMap, with and without ridge penalty, leaf-size limit and
\* shrinkage, no pruning (gamma = 0.0, as in the repository's tests).
Init ==
    /\ splitter \in Splitters({Zero, One}, {Zero}, {Zero, One}, {One, Half},
                             ConstraintMaps({{}, {0}}, Constraints))
    /\ node \in Nodes(splitter, Histograms(1, Columns(BinSums)), BoundIntervals, BOOLEAN)
    /\ InitLocals

\* NumFeatures columns with the same totals on a node of gain_value 0.0 and
\* unbounded weights, no shrinkage, no pruning, an empty ConstraintMap.
InitMulti ==
    /\ splitter \in Splitters({One}, {Zero}, {Zero}, {One}, ConstraintMaps({{}}, Constraints))
    /\ node \in Nodes(splitter, Histograms(NumFeatures, Columns(BinSums)),
                      { <<NEG_INFINITY, INFINITY>> }, {FALSE})
    /\ InitLocals

\* One feature column of bins that make the sums round, with and without
\* pruning, no shrinkage.
InitWide ==
    /\ splitter \in Splitters({Zero, One}, {Zero, One}, {Zero}, {One},
                             ConstraintMaps({{}, {0}}, {Unconstrained}))
    /\ node \in Nodes(splitter, Histograms(1, Columns(WideBinSums)),
                      { <<NEG_INFINITY, INFINITY>> }, {FALSE})
    /\ InitLocals

\* ------------------------------------------ Splitter::best_feature_split

Column(n, f) == n.histograms[f + 1]

\* Line 284.
Missing(n, f) == Column(n, f)[1]

\* The bin of iteration idx of `histogram[1..].iter().enumerate()` (292).
Bin(n, f, idx) == Column(n, f)[idx + 2]

\* Lines 293-307: the arguments of the call of evaluate_split.
Arguments(self, n, f, cg, ch) ==
    [left_gradient |-> cg,
     left_hessian |-> ch,
     right_gradient |-> Sub(Sub(n.grad_sum, cg), Missing(n, f).grad_sum),
     right_hessian |-> Sub(Sub(n.hess_sum, ch), Missing(n, f).hess_sum),
     missing_gradient |-> Missing(n, f).grad_sum,
     missing_hessian |-> Missing(n, f).hess_sum,
     lower_bound |-> n.lower_bound,
     upper_bound |-> n.upper_bound,
     constraint |-> get_constraint(self, f)]

\* Lines 298-308: the call of evaluate_split of one iteration.
EvaluateBin(self, n, f, cg, ch) ==
    Pick({ evaluate_split(self, a.left_gradient, a.left_hessian, a.right_gradient,
                          a.right_hessian, a.missing_gradient, a.missing_hessian,
                          a.lower_bound, a.upper_bound, a.constraint) :
           a \in {Arguments(self, n, f, cg, ch)} })

\* A variant of lines 317-326 without the second call of cull_gain.
SplitGainUnculled(self, n, f, v) ==
    Sub(Sub(Add(v.left.gain, v.right.gain), n.gain_value), self.gamma)

\* Lines 317-326.
SplitGain(self, n, f, v) ==
    cull_gain(Sub(Sub(Add(v.left.gain, v.right.gain), n.gain_value), self.gamma),
              v.left.weight, v.right.weight, get_constraint(self, f))

\* A variant of line 328 that lets a split gain of 0 through.
GainRejectedBelowZero(split_gain) == Lt(split_gain, Zero)

\* Line 328.
GainRejected(split_gain) == Le(split_gain, Zero)

\* Lines 335-343.
ChildBounds(n, left_weight, right_weight, constraint) ==
    Pick({ IF constraint = Some(Negative)
           THEN [left |-> <<mid, n.upper_bound>>, right |-> <<n.lower_bound, mid>>]
           ELSE IF constraint = Some(Positive)
           THEN [left |-> <<n.lower_bound, mid>>, right |-> <<mid, n.upper_bound>>]
           ELSE [left |-> <<n.lower_bound, n.upper_bound>>,
                 right |-> <<n.lower_bound, n.upper_bound>>] :
           mid \in {Div(Add(left_weight, right_weight), Two)} })

\* Line 350.
BetterThan(split_gain, mg) == ~mg.some \/ Gt(split_gain, mg.v)

\* Lines 344-360.
SplitInfo(n, f, idx, v, split_gain, bounds) ==
    [split_gain |-> IF is_nan(split_gain) THEN Zero ELSE split_gain,
     split_feature |-> f,
     split_value |-> Bin(n, f, idx).cut_value,
     split_bin |-> idx + 1,
     left_node |-> [v.left EXCEPT !.bounds = bounds.left],
     right_node |-> [v.right EXCEPT !.bounds = bounds.right],
     missing_node |-> v.missing]

\* Lines 317-360: the candidate of an iteration whose evaluate_split
\* returned v.
Candidate(self, n, f, idx, v) ==
    SplitInfo(n, f, idx, v, SplitGain(self, n, f, v),
              ChildBounds(n, v.left.weight, v.right.weight, get_constraint(self, f)))

InLoop == pc = "best_feature_split" /\ i + 2 <= Len(Column(node, feature))

\* Lines 293-308: an iteration calls evaluate_split; evaluated keeps the
\* call's arguments and what it returned for the match that follows.
CallEvaluateSplit ==
    /\ InLoop
    /\ evaluated' = Some([args |-> Arguments(splitter, node, feature, cuml_grad, cuml_hess),
                          ret |-> EvaluateBin(splitter, node, feature, cuml_grad, cuml_hess)])
    /\ pc' = "match"
    /\ UNCHANGED <<splitter, node, feature, i, cuml_grad, cuml_hess, split_info,
                   max_gain, best_split_info, best_gain>>

\* A variant of the loop that leaves the cumulative sums alone when
\* evaluate_split returned None.
AdvanceUnlessNone(e) ==
    /\ cuml_grad' = IF e.some THEN Add(cuml_grad, Bin(node, feature, i).grad_sum)
                    ELSE cuml_grad
    /\ cuml_hess' = IF e.some THEN Add(cuml_hess, Bin(node, feature, i).hess_sum)
                    ELSE cuml_hess
    /\ i' = i + 1
    /\ pc' = "best_feature_split"

\* Lines 310-311, 330-331, 363-364, and on to the next iteration.
Advance(e) ==
    /\ cuml_grad' = Add(cuml_grad, Bin(node, feature, i).grad_sum)
    /\ cuml_hess' = Add(cuml_hess, Bin(node, feature, i).hess_sum)
    /\ i' = i + 1
    /\ pc' = "best_feature_split"

\* Lines 309-313: evaluate_split returned None.
BinNotEvaluated ==
    /\ pc = "match"
    /\ ~evaluated.v.ret.some
    /\ Advance(evaluated.v.ret)
    /\ UNCHANGED <<splitter, node, feature, split_info, max_gain,
                   best_split_info, best_gain, evaluated>>

\* Lines 328-333: the split gain is not positive.
BinRejected ==
    /\ pc = "match"
    /\ evaluated.v.ret.some
    /\ GainRejected(SplitGain(splitter, node, feature, evaluated.v.ret.v))
    /\ Advance(evaluated.v.ret)
    /\ UNCHANGED <<splitter, node, feature, split_info, max_gain,
                   best_split_info, best_gain, evaluated>>

\* Lines 335-364: a candidate, kept when it beats the best so far.
BinCandidate ==
    /\ pc = "match"
    /\ evaluated.v.ret.some
    /\ \E info \in {Candidate(splitter, node, feature, i, evaluated.v.ret.v)} :
           /\ ~GainRejected(SplitGain(splitter, node, feature, evaluated.v.ret.v))
           /\ IF BetterThan(info.split_gain, max_gain)
              THEN /\ max_gain' = Some(info.split_gain)
                   /\ split_info' = Some(info)
              ELSE UNCHANGED <<max_gain, split_info>>
    /\ Advance(evaluated.v.ret)
    /\ UNCHANGED <<splitter, node, feature, best_split_info, best_gain, evaluated>>

\* --------------------------------------------------- Splitter::best_split

\* Line 248: the call of best_feature_split(node, feature).
CallBestFeatureSplit ==
    /\ pc = "best_split"
    /\ feature < Len(node.histograms)
    /\ pc' = "best_feature_split"
    /\ i' = 0
    /\ cuml_grad' = Zero
    /\ cuml_hess' = Zero
    /\ split_info' = None
    /\ max_gain' = None
    /\ UNCHANGED <<splitter, node, feature, best_split_info, best_gain, evaluated>>

\* A variant of line 251 that also replaces the best split on a tie.
ImprovesOrTies(info, bg) == Ge(info.split_gain, bg)

\* Line 251.
Improves(info, bg) == Gt(info.split_gain, bg)

\* Line 366 and lines 249-257: best_feature_split returns split_info and
\* best_split keeps it when its gain is above the best so far.
ReturnBestFeatureSplit ==
    /\ pc = "best_feature_split"
    /\ i + 2 > Len(Column(node, feature))
    /\ IF split_info.some /\ Improves(split_info.v, best_gain)
       THEN /\ best_gain' = split_info.v.split_gain
            /\ best_split_info' = split_info
       ELSE UNCHANGED <<best_gain, best_split_info>>
    /\ feature' = feature + 1
    /\ pc' = "best_split"
    /\ UNCHANGED <<splitter, node, i, cuml_grad, cuml_hess, split_info, max_gain,
                   evaluated>>

\* Line 259.
ReturnBestSplit ==
    /\ pc = "best_split"
    /\ feature = Len(node.histograms)
    /\ pc' = "returned"
    /\ UNCHANGED <<splitter, node, feature, i, cuml_grad, cuml_hess, split_info,
                   max_gain, best_split_info, best_gain, evaluated>>

Next ==
    \/ CallBestFeatureSplit
    \/ CallEvaluateSplit
    \/ BinNotEvaluated
    \/ BinRejected
    \/ BinCandidate
    \/ ReturnBestFeatureSplit
    \/ ReturnBestSplit

Spec == Init /\ [][Next]_vars

SpecMulti == InitMulti /\ [][Next]_vars

SpecWide == InitWide /\ [][Next]_vars

\* ------------------------------------------------------------ properties
\* The states in which a call has returned, and the histogram's sums
\* written without the loop.

\* best_feature_split(node, feature) has left its loop: split_info is what
\* it returns (line 366).
FeatureReturned ==
    pc = "best_feature_split" /\ i + 2 > Len(Column(node, feature))

\* best_split(node) has returned best_split_info (line 259).
BestSplitReturned == pc = "returned"

\* The sums of the bins 1..idx of the column (bin 0, the missing bin, left
\* out), added up from 0.0 in the order of the bins.
RECURSIVE PrefixGrad(_, _)
PrefixGrad(col, idx) ==
    IF idx = 0 THEN Zero ELSE Add(PrefixGrad(col, idx - 1), col[idx + 1].grad_sum)

RECURSIVE PrefixHess(_, _)
PrefixHess(col, idx) ==
    IF idx = 0 THEN Zero ELSE Add(PrefixHess(col, idx - 1), col[idx + 1].hess_sum)

LeftGradAt(n, f, idx) == PrefixGrad(Column(n, f), idx)

LeftHessAt(n, f, idx) == PrefixHess(Column(n, f), idx)

\* The candidate of feature f at the boundary of iteration idx, or None when
\* evaluate_split or the gain test turns it down.
CandidateAt(self, n, f, idx) ==
    Pick({ IF e.some /\ ~GainRejected(SplitGain(self, n, f, e.v))
           THEN Some(Candidate(self, n, f, idx, e.v))
           ELSE None :
           e \in {EvaluateBin(self, n, f, LeftGradAt(n, f, idx), LeftHessAt(n, f, idx))} })

Features(n) == 0..(Len(n.histograms) - 1)

Iterations(n, f) == 0..(Len(Column(n, f)) - 2)

\* Every accepted candidate of the node, over all features and bins.
AcceptedCandidates(self, n) ==
    { c.v : c \in { d \in UNION { { CandidateAt(self, n, f, idx) : idx \in Iterations(n, f) } :
                                  f \in Features(n) } : d.some } }

\* The constraint of the feature a split is on.
ConstraintOf(info) == get_constraint(splitter, info.split_feature)

\* The splits the calls have returned so far: best_feature_split's for the
\* current feature, best_split's for the node.
ReturnedSplits ==
    (IF FeatureReturned /\ split_info.some THEN {split_info.v} ELSE {})
    \cup (IF BestSplitReturned /\ best_split_info.some THEN {best_split_info.v} ELSE {})

\* C1: a split is returned by best_feature_split or best_split only with a
\* split gain strictly above 0 (never NaN), and best_split returns None when
\* no bin of any feature has a positive split gain.
C1_ReturnedGainPositive ==
    /\ \A info \in ReturnedSplits : Gt(info.split_gain, Zero)
    /\ BestSplitReturned /\ AcceptedCandidates(splitter, node) = {}
           => best_split_info = None

\* C1 witness: best_split returned a split although one bin of the feature
\* was evaluated and turned down for its gain, and another call returned
\* None.
C1_Witness ==
    /\ BestSplitReturned
    /\ best_split_info.some
    /\ Gt(best_split_info.v.split_gain, Zero)
    /\ \E idx \in Iterations(node, 0) :
           \E e \in {EvaluateBin(splitter, node, 0, LeftGradAt(node, 0, idx),
                                 LeftHessAt(node, 0, idx))} :
               e.some /\ GainRejected(SplitGain(splitter, node, 0, e.v))

\* C2: the final, shrunk child weights of every returned split respect the
\* feature's monotonic constraint.
C2_MonotoneWeights ==
    \A info \in ReturnedSplits :
        /\ ConstraintOf(info) = Some(Positive)
               => Le(info.left_node.weight, info.right_node.weight)
        /\ ConstraintOf(info) = Some(Negative)
               => Ge(info.left_node.weight, info.right_node.weight)

\* The weight before the shrinkage by the learning rate.
Unshrunk(w) == Div(w, splitter.learning_rate)

InInterval(w, n) == Ge(w, n.lower_bound) /\ Le(w, n.upper_bound)

\* C2 witness: a split on a constrained feature was returned whose missing
\* mass went right, where the recomputed weight is not clamped and left the
\* node's interval.
C2_Witness ==
    /\ BestSplitReturned
    /\ best_split_info.some
    /\ ConstraintOf(best_split_info.v) = Some(Negative)
    /\ best_split_info.v.missing_node = Right
    /\ Ne(Missing(node, 0).hess_sum, Zero)
    /\ ~InInterval(Unshrunk(best_split_info.v.right_node.weight), node)
    /\ Gt(best_split_info.v.left_node.weight, best_split_info.v.right_node.weight)

\* C3: both children of whatever evaluate_split, best_feature_split or
\* best_split returns have a cover of at least min_leaf_weight.
C3_MinLeafWeight ==
    /\ evaluated.some /\ evaluated.v.ret.some
           => /\ Ge(evaluated.v.ret.v.left.cover, splitter.min_leaf_weight)
              /\ Ge(evaluated.v.ret.v.right.cover, splitter.min_leaf_weight)
    /\ \A info \in ReturnedSplits :
           /\ Ge(info.left_node.cover, splitter.min_leaf_weight)
           /\ Ge(info.right_node.cover, splitter.min_leaf_weight)

\* C3 witness: with missing-only splits allowed, evaluate_split returned a
\* split whose left side reaches min_leaf_weight only through the missing
\* mass routed to it.
C3_Witness ==
    /\ evaluated.some
    /\ evaluated.v.ret.some
    /\ splitter.allow_missing_splits
    /\ splitter.min_leaf_weight = One
    /\ Lt(evaluated.v.args.left_hessian, splitter.min_leaf_weight)
    /\ evaluated.v.ret.v.missing = Left
    /\ Ge(evaluated.v.ret.v.left.cover, splitter.min_leaf_weight)

\* All of the node's mass of feature f is in the missing bin: every other
\* bin compares equal to 0.0 in gradient and hessian, as the code tests
\* emptiness (82-83), which holds of -0.0 as well.
AllMassMissing(n, f) ==
    /\ HasMissing([missing_gradient |-> Missing(n, f).grad_sum,
                   missing_hessian |-> Missing(n, f).hess_sum])
    /\ \A idx \in Iterations(n, f) :
           NoInfo(Bin(n, f, idx).grad_sum, Bin(n, f, idx).hess_sum)

\* C4: best_feature_split returns None for a column with all of its mass in
\* the missing bin.
C4_AllMissingNone ==
    FeatureReturned /\ AllMassMissing(node, feature) => ~split_info.some

\* C5: with allow_missing_splits off, evaluate_split returns None when a
\* side has neither gradient nor hessian before the routing, so that
\* best_feature_split returns no split at such a boundary, the first one
\* included.
C5_NoMissingOnlySplit ==
    ~splitter.allow_missing_splits =>
        /\ evaluated.some
           /\ (NoInfo(evaluated.v.args.left_gradient, evaluated.v.args.left_hessian)
               \/ NoInfo(evaluated.v.args.right_gradient, evaluated.v.args.right_hessian))
               => ~evaluated.v.ret.some
        /\ \A info \in ReturnedSplits :
               /\ info.split_bin # 1
               /\ ~NoInfo(LeftGradAt(node, info.split_feature, info.split_bin - 1),
                          LeftHessAt(node, info.split_feature, info.split_bin - 1))
               /\ ~NoInfo(Sub(Sub(node.grad_sum,
                                  LeftGradAt(node, info.split_feature, info.split_bin - 1)),
                              Missing(node, info.split_feature).grad_sum),
                          Sub(Sub(node.hess_sum,
                                  LeftHessAt(node, info.split_feature, info.split_bin - 1)),
                              Missing(node, info.split_feature).hess_sum))

\* C5 witness: with allow_missing_splits off, evaluate_split returned None
\* at the first boundary, whose left side is empty, where the permissive
\* configuration returns a split.
C5_Witness ==
    /\ ~splitter.allow_missing_splits
    /\ evaluated.some
    /\ NoInfo(evaluated.v.args.left_gradient, evaluated.v.args.left_hessian)
    /\ HasMissing(evaluated.v.args)
    /\ ~evaluated.v.ret.some
    /\ EvaluateSplit([splitter EXCEPT !.allow_missing_splits = TRUE],
                     evaluated.v.args).some

\* C6: best_split returns the accepted candidate of the largest split gain,
\* among equals the one of the lowest feature and then of the earliest bin,
\* exactly as the candidate is computed from its own column; it returns None
\* when there is no accepted candidate.
C6_BestOfAll ==
    BestSplitReturned =>
        \E all \in {AcceptedCandidates(splitter, node)} :
            IF all = {} THEN best_split_info = None
            ELSE /\ best_split_info.some
                 /\ best_split_info.v \in all
                 /\ \A c \in all :
                        \/ Lt(c.split_gain, best_split_info.v.split_gain)
                        \/ /\ c.split_gain = best_split_info.v.split_gain
                           /\ \/ c.split_feature > best_split_info.v.split_feature
                              \/ /\ c.split_feature = best_split_info.v.split_feature
                                 /\ c.split_bin >= best_split_info.v.split_bin

\* C6 witness: best_split returned the candidate of feature 0 while a
\* candidate of a later feature and a later bin of feature 0 have the same
\* gain, and a third candidate has a smaller one.
C6_Witness ==
    /\ BestSplitReturned
    /\ best_split_info.some
    /\ best_split_info.v.split_feature = 0
    /\ \E c, d, e \in AcceptedCandidates(splitter, node) :
           /\ c.split_feature > 0
           /\ c.split_gain = best_split_info.v.split_gain
           /\ d.split_feature = 0
           /\ d.split_bin > best_split_info.v.split_bin
           /\ d.split_gain = best_split_info.v.split_gain
           /\ Lt(e.split_gain, best_split_info.v.split_gain)

\* The locals of the call evaluate_split(a) that the claim about the routing
\* names.
GainsOf(self, a) ==
    Pick(UNION { { [left_gain |-> s.left_gain,
                    right_gain |-> s.right_gain,
                    left_weight |-> s.left_weight,
                    right_weight |-> s.right_weight,
                    missing_left_gain |-> m.missing_left_gain,
                    missing_right_gain |-> m.missing_right_gain] :
                   m \in {MissingOptions(self, a, s.right_weight)} } :
                 s \in {Sides(self, a)} })

\* evaluate_split has just returned to best_feature_split (line 298).
EvaluateSplitReturned == pc = "match"

\* C7: when evaluate_split returns, the missing mass went left exactly when
\* its incremental gain on the left is strictly the larger, right otherwise;
\* with an empty missing bin the tag is Right and both sides are returned as
\* they were given.  No other tag is produced.
C7_MissingRouting ==
    EvaluateSplitReturned /\ evaluated.v.ret.some =>
        \E a \in {evaluated.v.args}, r \in {evaluated.v.ret.v} :
            \E g \in {GainsOf(splitter, a)} :
                /\ r.missing \in {Left, Right}
                /\ HasMissing(a) =>
                       (r.missing = Left <=>
                            Gt(Sub(g.missing_left_gain, g.left_gain),
                               Sub(g.missing_right_gain, g.right_gain)))
                /\ ~HasMissing(a) =>
                       /\ r.missing = Right
                       /\ r.left.grad = a.left_gradient
                       /\ r.left.cover = a.left_hessian
                       /\ r.left.gain = g.left_gain
                       /\ r.left.weight = Shrunk(splitter, g.left_weight)
                       /\ r.right.grad = a.right_gradient
                       /\ r.right.cover = a.right_hessian
                       /\ r.right.gain = g.right_gain
                       /\ r.right.weight = Shrunk(splitter, g.right_weight)

\* C7 witness: evaluate_split returned with the missing mass sent right on a
\* tie of the two incremental gains.
C7_Witness ==
    /\ EvaluateSplitReturned
    /\ evaluated.v.ret.some
    /\ HasMissing(evaluated.v.args)
    /\ evaluated.v.ret.v.missing = Right
    /\ \E g \in {GainsOf(splitter, evaluated.v.args)} :
           Eq(Sub(g.missing_left_gain, g.left_gain),
              Sub(g.missing_right_gain, g.right_gain))

\* The bin sums of the column are 0, 1 or -1, which f32 adds exactly.
UnitSums(col) ==
    \A k \in 1..Len(col) :
        /\ col[k].grad_sum \in {Zero, One, Int2F(-1)}
        /\ col[k].hess_sum \in {Zero, One}

\* C8 as stated: the left child of a returned split with split_bin = k holds
\* the sums of the bins 1..k-1, plus the missing bin's when the missing mass
\* went left, and the right child holds the node's totals less the left
\* child's, so that left + right is the node's totals; and the cumulative
\* sums of the scan are, at every iteration, the sums of all the bins before
\* it.
C8_ChildSums ==
    /\ \A info \in ReturnedSplits :
           \E lg \in {LeftGradAt(node, info.split_feature, info.split_bin - 1)},
              lh \in {LeftHessAt(node, info.split_feature, info.split_bin - 1)},
              m \in {Missing(node, info.split_feature)} :
               /\ info.missing_node \in {Left, Right}
               /\ info.left_node.grad =
                      (IF info.missing_node = Left THEN Add(lg, m.grad_sum) ELSE lg)
               /\ info.left_node.cover =
                      (IF info.missing_node = Left THEN Add(lh, m.hess_sum) ELSE lh)
               /\ Eq(info.right_node.grad, Sub(node.grad_sum, info.left_node.grad))
               /\ Eq(info.right_node.cover, Sub(node.hess_sum, info.left_node.cover))
               /\ Eq(Add(info.left_node.grad, info.right_node.grad), node.grad_sum)
               /\ Eq(Add(info.left_node.cover, info.right_node.cover), node.hess_sum)
    /\ pc \in {"best_feature_split", "match"} =>
           /\ cuml_grad = LeftGradAt(node, feature, i)
           /\ cuml_hess = LeftHessAt(node, feature, i)

\* C8 amended: the left child holds the f32 sums of the bins 1..k-1, plus
\* the missing bin's when the missing mass went left; the right child holds
\* (node total - cumulative sum) - missing sum as f32 computes it, plus the
\* missing bin's when the missing mass went right; on a column of sums that
\* f32 adds exactly the right child's sums are the node's totals less the
\* left child's and left + right is the node's totals; and the cumulative
\* sums of the scan are, at every iteration, the f32 sums of all the bins
\* before it.
C8_ChildSumsRounded ==
    /\ \A info \in ReturnedSplits :
           \E lg \in {LeftGradAt(node, info.split_feature, info.split_bin - 1)},
              lh \in {LeftHessAt(node, info.split_feature, info.split_bin - 1)},
              m \in {Missing(node, info.split_feature)} :
               /\ info.missing_node \in {Left, Right}
               /\ info.left_node.grad =
                      (IF info.missing_node = Left THEN Add(lg, m.grad_sum) ELSE lg)
               /\ info.left_node.cover =
                      (IF info.missing_node = Left THEN Add(lh, m.hess_sum) ELSE lh)
               /\ \E rg \in {Sub(Sub(node.grad_sum, lg), m.grad_sum)},
                     rh \in {Sub(Sub(node.hess_sum, lh), m.hess_sum)} :
                      /\ info.right_node.grad =
                             (IF info.missing_node = Right THEN Add(rg, m.grad_sum) ELSE rg)
                      /\ info.right_node.cover =
                             (IF info.missing_node = Right THEN Add(rh, m.hess_sum) ELSE rh)
               /\ UnitSums(Column(node, info.split_feature)) =>
                      /\ Eq(info.right_node.grad, Sub(node.grad_sum, info.left_node.grad))
                      /\ Eq(info.right_node.cover, Sub(node.hess_sum, info.left_node.cover))
                      /\ Eq(Add(info.left_node.grad, info.right_node.grad), node.grad_sum)
                      /\ Eq(Add(info.left_node.cover, info.right_node.cover), node.hess_sum)
    /\ pc \in {"best_feature_split", "match"} =>
           /\ cuml_grad = LeftGradAt(node, feature, i)
           /\ cuml_hess = LeftHessAt(node, feature, i)

\* C8 witness: best_feature_split returned a split at the last bin, after
\* evaluate_split had turned down an earlier boundary, whose children's
\* gradient sums do not add up to the node's: a sum was rounded.
C8_Witness ==
    /\ FeatureReturned
    /\ split_info.some
    /\ split_info.v.split_bin = Len(Column(node, feature)) - 1
    /\ Ne(Missing(node, feature).grad_sum, Zero)
    /\ ~EvaluateBin(splitter, node, feature, Zero, Zero).some
    /\ Ne(Add(split_info.v.left_node.grad, split_info.v.right_node.grad), node.grad_sum)

\* C9: on a constrained feature, the unshrunk weight of each child of a
\* returned split lies in the node's interval.
C9_WeightsInInterval ==
    \A info \in ReturnedSplits :
        ConstraintOf(info) \in {Some(Positive), Some(Negative)} =>
            /\ InInterval(Unshrunk(info.left_node.weight), node)
            /\ InInterval(Unshrunk(info.right_node.weight), node)

\* C10: both children of a returned split get a well-formed interval; an
\* unconstrained feature hands the node's interval to both.
C10_ChildIntervals ==
    \A info \in ReturnedSplits :
        /\ Le(info.left_node.bounds[1], info.left_node.bounds[2])
        /\ Le(info.right_node.bounds[1], info.right_node.bounds[2])
        /\ ConstraintOf(info) \in {None, Some(Unconstrained)} =>
               /\ info.left_node.bounds = <<node.lower_bound, node.upper_bound>>
               /\ info.right_node.bounds = <<node.lower_bound, node.upper_bound>>

\* The same with the learning rate 1 only, where the midpoint is one of
\* unshrunk weights.
C10_ChildIntervalsUnshrunk ==
    splitter.learning_rate = One => C10_ChildIntervals

=============================================================================
